---------------------------- MODULE Spec2Model ----------------------------
(***************************************************************************)
(* miniraw: a raw TCP (port 9100) capture service.                         *)
(*                                                                         *)
(* The model follows src/src/listener.rs (start_raw_listener, FileStream)  *)
(* and the discard-flag handling of src/src/main.rs (MainWindow).          *)
(*                                                                         *)
(* The environment is the remote peers (connect, send, close, reset), the  *)
(* wall clock, an external actor that creates files in the destination     *)
(* directory, and the operator who toggles the discard menu item.          *)
(***************************************************************************)
EXTENDS Integers, Sequences, FiniteSets, TLC

\* ---------------------------------------------------------------- bounds
MaxConn == 2        \* connections the peers open
MaxBytes == 2       \* bytes one peer sends
MaxClock == 1       \* the wall clock runs over 0..MaxClock seconds
MaxExt == 1         \* files the external actor creates
MaxToggle == 1      \* discard menu commands the operator issues
MaxCommands == 3    \* discard menu commands in the window-only specification
MaxLogCalls == 2    \* calls of the log sink each thread makes in the logger specification
MaxArrivals == 3    \* bursts of bytes the socket of the chunk-level model receives

\* FileStream::CHUNK_SIZE
CHUNK_SIZE == 32768

Conns == 1..MaxConn

\* The payload of connection c: the program never looks into the bytes, so one
\* payload of pairwise distinct bytes per connection stands for all of them,
\* and a peer sends a prefix of it.
Payload(c) == [i \in 1..MaxBytes |-> 10 * c + i]

\* Every timestamp the allocation loop can reach: it starts at the clock and
\* is incremented once per existing file it meets.
MaxTs == MaxClock + MaxConn + MaxExt
Timestamps == 0..MaxTs

\* A file name of the destination directory, as the sequence of its numeric
\* parts: <<t>> is "t.spl" (and <<t, k>> would be "t-k.spl").
\* format!("{}.spl", timestamp): the decimal timestamp and nothing else.
SplName(timestamp) == <<timestamp>>

\* The names the program ever looks at or creates.
FileNames == {SplName(t) : t \in Timestamps}

NoName == <<>>          \* no file name chosen (yet)
NoFile == <<>>          \* directory entry of a name that is absent
File(content) == <<content>>    \* directory entry of a file holding `content`
Content(entry) == entry[1]

\* The bytes an external actor puts into the files it creates.
ExtContent == <<7, 7>>

VARIABLES
    discard_flag,   \* MainWindow.discard_flag (the shared AtomicBool)
    registry,       \* the persisted "discard" DWORD: <<>> when absent, else <<d>>
    menuChecked,    \* checked state of the IDM_DISCARD_FILES menu item
    toggles,        \* discard menu commands handled so far
    regWritable,    \* the last RegCreateKeyW of store_discard_flag succeeded
    lpc,            \* listener thread: "init", "bind" (spawned), "bound", "bindfailed", "accepting",
                    \* "busy", "unwinding", "returned", "stopped", "panicked"
    cur,            \* the connection whose future for_each is driving (0: none)
    conn,           \* per connection: "idle", "pending" (in the backlog), "accepted"
    peer,           \* per connection, the remote end: "open", "closed", "reset"
    sockbuf,        \* per connection: bytes received by the socket, not yet read
    sentAll,        \* per connection: every byte the peer has sent (history)
    st,             \* per connection, its session: "None", "Allocating", "Creating",
                    \*   "Copying", "Kept", "Failed"
    handledAt,      \* per session: the clock second it was accepted in (history)
    timestamp,      \* per session: the allocation loop's `timestamp`
    filename,       \* per session: the `filename` the loop broke with
    dispatchFlag,   \* per session: value of discard_flag when it was accepted (history)
    created,        \* per session: names it passed to File::create with success (history)
    fs,             \* the destination directory: name -> content or NoFile
    extCount,       \* files created by the external actor so far
    clock,          \* wall clock, in seconds
    log,            \* the lines given to the log sink, in order
    \* FileStream at the level of byte counts (ChunkSpec): a stream byte is
    \* named by its offset in the connection's byte stream.
    innerAvail,     \* bytes the socket (FileStream.inner) holds unread
    innerTotal,     \* bytes the socket has received so far (history)
    innerEof,       \* the peer has closed
    arrivals,       \* bursts received so far
    yielded,        \* the chunks poll has yielded, each [off, len], in order
    fileSegs,       \* the chunks write_all has put into the file, in order
    streamEnded,    \* poll has returned None
    \* WindowLogger (LogSpec): the edit control and the call the listener
    \* thread is in; a line is its id followed by the line end.
    editText,       \* the text of the edit control, a sequence of characters
    logPc,          \* listener thread's call: "idle", "len" (after WM_GETTEXTLENGTH), "text" (after WM_GETTEXT)
    text_len,       \* its text_len
    old_text,       \* its old_text
    uiCalls,        \* calls the UI thread has made
    bgCalls,        \* calls the listener thread has finished
    returned        \* the ids of the lines whose call has returned, in order

vars == <<discard_flag, registry, menuChecked, toggles, regWritable, lpc, cur, conn, peer,
          sockbuf, sentAll, st, handledAt, timestamp, filename, dispatchFlag, created,
          fs, extCount, clock, log,
          innerAvail, innerTotal, innerEof, arrivals, yielded, fileSegs, streamEnded,
          editText, logPc, text_len, old_text, uiCalls, bgCalls, returned>>

uiVars == <<discard_flag, registry, menuChecked, toggles, regWritable>>
peerVars == <<conn, peer, sockbuf, sentAll>>
sessVars == <<st, handledAt, timestamp, filename, dispatchFlag, created>>
chunkVars == <<innerAvail, innerTotal, innerEof, arrivals, yielded, fileSegs, streamEnded>>
loggerVars == <<editText, logPc, text_len, old_text, uiCalls, bgCalls, returned>>
mainVars == <<uiVars, lpc, cur, peerVars, sessVars, fs, extCount, clock, log>>

\* ------------------------------------------------------------- log lines
Line(level, kind, c, n, name) ==
    [level |-> level, kind |-> kind, conn |-> c, bytes |-> n, name |-> name]

\* info!("Started listener on port 9100")
StartedLine == Line("info", "started", 0, 0, NoName)
\* info!("Incoming connection from {}", peer_addr)
IncomingLine(c) == Line("info", "incoming", c, 0, NoName)
\* info!("Saved {} bytes into {}", metadata.len(), base name)
SavedLine(c, n, name) == Line("info", "saved", c, n, name)
\* warn!("{}", e)
ErrorLine(c) == Line("warn", "error", c, 0, NoName)
\* error!("{}", e) of the listener thread
ThreadErrorLine(c) == Line("error", "error", c, 0, NoName)
\* info!("Discard received files: {}", flag)
DiscardLine(flag) == Line("info", IF flag THEN "discard-on" ELSE "discard-off", 0, 0, NoName)
\* info!(">>> MiniRAW NG {} by Dmitry Pankratov", version)
BannerLine == Line("info", "banner", 0, 0, NoName)

\* ------------------------------------------------------------- helpers
Take(s, n) == SubSeq(s, 1, IF Len(s) < n THEN Len(s) ELSE n)
Drop(s, n) == SubSeq(s, (IF Len(s) < n THEN Len(s) ELSE n) + 1, Len(s))

\* Path::exists, with the check lost: every name looks free.
ExistsNever(name) == FALSE

\* Path::exists
Exists(name) == fs[name] # NoFile

\* MainWindow::load_discard_flag on a fresh AtomicBool::new(false): the flag
\* is stored only when RegQueryValueExW succeeds. The call passes a non-null
\* lpReserved (&mut 0), which the API's contract forbids: `queried` is whether
\* the call answers ERROR_SUCCESS all the same.
LoadDiscardFlag(reg, queried) ==
    IF reg = <<>> \/ ~queried THEN FALSE ELSE reg[1] # 0

\* --------------------------------------------------------------- Init
Init ==
    /\ registry \in {<<>>, <<0>>, <<1>>}
    /\ \E queried \in BOOLEAN : discard_flag = LoadDiscardFlag(registry, queried)
    /\ menuChecked = discard_flag
    /\ toggles = 0
    /\ regWritable = TRUE
    /\ lpc = "init"
    /\ cur = 0
    /\ conn = [c \in Conns |-> "idle"]
    /\ peer = [c \in Conns |-> "open"]
    /\ sockbuf = [c \in Conns |-> <<>>]
    /\ sentAll = [c \in Conns |-> <<>>]
    /\ st = [c \in Conns |-> "None"]
    /\ handledAt = [c \in Conns |-> 0]
    /\ timestamp = [c \in Conns |-> 0]
    /\ filename = [c \in Conns |-> NoName]
    /\ dispatchFlag = [c \in Conns |-> FALSE]
    /\ created = [c \in Conns |-> {}]
    /\ fs = [n \in FileNames |-> NoFile]
    /\ extCount = 0
    /\ clock = 0
    /\ log = <<>>
    /\ innerAvail = 0
    /\ innerTotal = 0
    /\ innerEof = FALSE
    /\ arrivals = 0
    /\ yielded = <<>>
    /\ fileSegs = <<>>
    /\ streamEnded = FALSE
    /\ editText = <<>>
    /\ logPc = "idle"
    /\ text_len = 0
    /\ old_text = <<>>
    /\ uiCalls = 0
    /\ bgCalls = 0
    /\ returned = <<>>

\* ------------------------------------------------- the window (main.rs)
\* handle_message, WM_CREATE: the logger is installed, two lines are logged
\* and the listener thread is spawned. The thread's body (main.rs:166-170)
\* hands a clone of discard_flag to start_raw_listener, whose code in
\* listener.rs never reads it (SessionDiscards), and logs error!("{}", e)
\* when the listener comes back with a failure (ThreadError).
WmCreate ==
    /\ lpc = "init"
    /\ log' = log \o <<BannerLine, DiscardLine(discard_flag)>>
    /\ lpc' = "bind"
    /\ UNCHANGED <<chunkVars, loggerVars, uiVars, cur, peerVars, sessVars, fs, extCount, clock>>

\* MainWindow::store_discard_flag: the value is written when the key opens.
StoreDiscardFlag(reg, flag, writable) ==
    IF writable THEN <<IF flag THEN 1 ELSE 0>> ELSE reg

\* handle_message, WM_SYSCOMMAND with IDM_DISCARD_FILES; at most `limit`
\* commands are issued.
DiscardCommand(limit) ==
    /\ lpc # "init"
    /\ toggles < limit
    /\ LET flag == ~discard_flag IN
        /\ log' = Append(log, DiscardLine(flag))
        /\ discard_flag' = flag
        /\ menuChecked' = flag
        /\ \E writable \in BOOLEAN :
              /\ regWritable' = writable
              /\ registry' = StoreDiscardFlag(registry, flag, writable)
    /\ toggles' = toggles + 1
    /\ UNCHANGED <<chunkVars, loggerVars, lpc, cur, peerVars, sessVars, fs, extCount, clock>>

\* The operator's commands while the listener runs.
Toggle ==
    DiscardCommand(MaxToggle)

\* The operator's commands in the window-only specification.
SysCommand ==
    DiscardCommand(MaxCommands)

\* ------------------------------------------------------- the environment
\* The listener thread has a step left to take. Once it has none, no
\* connection is served, no file is touched and no line is logged by it
\* again, and the environment is left alone.
Live == lpc \in {"bind", "bound", "bindfailed", "accepting", "busy", "unwinding", "returned"}

Tick ==
    /\ Live
    /\ clock < MaxClock
    /\ clock' = clock + 1
    /\ UNCHANGED <<chunkVars, loggerVars, uiVars, lpc, cur, peerVars, sessVars, fs, extCount, log>>

\* Another process creates a file in the destination directory.
ExternalCreate(n) ==
    /\ Live
    /\ extCount < MaxExt
    /\ ~Exists(n)
    /\ fs' = [fs EXCEPT ![n] = File(ExtContent)]
    /\ extCount' = extCount + 1
    /\ UNCHANGED <<chunkVars, loggerVars, uiVars, lpc, cur, peerVars, sessVars, clock, log>>

Terminal(c) == st[c] \in {"Kept", "Failed"}

\* A peer connects; the connection waits in the listener's backlog. The
\* socket listens from TcpListener::bind until the listener's future resolves.
Connect(c) ==
    /\ lpc \in {"bound", "accepting", "busy", "unwinding"}
    /\ conn[c] = "idle"
    /\ \A d \in Conns : d < c => conn[d] # "idle"
    /\ conn' = [conn EXCEPT ![c] = "pending"]
    /\ UNCHANGED <<chunkVars, loggerVars, uiVars, lpc, cur, peer, sockbuf, sentAll, sessVars, fs,
                   extCount, clock, log>>

PeerSend(c) ==
    /\ Live
    /\ conn[c] # "idle"
    /\ peer[c] = "open"
    /\ ~Terminal(c)
    /\ Len(sentAll[c]) < MaxBytes
    /\ LET b == Payload(c)[Len(sentAll[c]) + 1] IN
        /\ sockbuf' = [sockbuf EXCEPT ![c] = Append(@, b)]
        /\ sentAll' = [sentAll EXCEPT ![c] = Append(@, b)]
    /\ UNCHANGED <<chunkVars, loggerVars, uiVars, lpc, cur, conn, peer, sessVars, fs, extCount, clock, log>>

\* The peer closes its end: the reader sees EOF after the buffered bytes.
PeerClose(c) ==
    /\ Live
    /\ conn[c] # "idle"
    /\ peer[c] = "open"
    /\ ~Terminal(c)
    /\ peer' = [peer EXCEPT ![c] = "closed"]
    /\ UNCHANGED <<chunkVars, loggerVars, uiVars, lpc, cur, conn, sockbuf, sentAll, sessVars, fs,
                   extCount, clock, log>>

\* The peer resets the connection: the next read fails.
PeerReset(c) ==
    /\ Live
    /\ conn[c] # "idle"
    /\ peer[c] = "open"
    /\ ~Terminal(c)
    /\ peer' = [peer EXCEPT ![c] = "reset"]
    /\ UNCHANGED <<chunkVars, loggerVars, uiVars, lpc, cur, conn, sockbuf, sentAll, sessVars, fs,
                   extCount, clock, log>>

\* ------------------------------------------- start_raw_listener (listener.rs)
\* start_raw_listener is called: TcpListener::bind(&addr) binds and listens.
BindCallOk ==
    /\ lpc = "bind"
    /\ lpc' = "bound"
    /\ UNCHANGED <<chunkVars, loggerVars, uiVars, cur, peerVars, sessVars, fs, extCount, clock,
                   log>>

\* start_raw_listener is called: TcpListener::bind(&addr) fails, there is no
\* socket.
BindCallErr ==
    /\ lpc = "bind"
    /\ lpc' = "bindfailed"
    /\ UNCHANGED <<chunkVars, loggerVars, uiVars, cur, peerVars, sessVars, fs, extCount, clock,
                   log>>

\* First poll after a successful bind: the and_then closure logs and starts
\* incoming().
BindOk ==
    /\ lpc = "bound"
    /\ log' = Append(log, StartedLine)
    /\ lpc' = "accepting"
    /\ UNCHANGED <<chunkVars, loggerVars, uiVars, cur, peerVars, sessVars, fs, extCount, clock>>

\* A bind failure that is logged and then retried.
BindErrRetry ==
    /\ lpc = "bindfailed"
    /\ log' = Append(log, ErrorLine(0))
    /\ lpc' = "bind"
    /\ UNCHANGED <<chunkVars, loggerVars, uiVars, cur, peerVars, sessVars, fs, extCount, clock>>

\* First poll after a failed bind: the and_then closure is skipped, the outer
\* map_err logs and the future ends.
BindErr ==
    /\ lpc = "bindfailed"
    /\ log' = Append(log, ErrorLine(0))
    /\ lpc' = "returned"
    /\ UNCHANGED <<chunkVars, loggerVars, uiVars, cur, peerVars, sessVars, fs, extCount, clock>>

\* for_each polls incoming() only when no future of an earlier item is running;
\* the backlog hands out connections in the order they arrived.
CanAccept(c) ==
    /\ lpc = "accepting"
    /\ conn[c] = "pending"
    /\ \A d \in Conns : d < c => conn[d] # "pending"

\* The policy a session follows. start_raw_listener takes no flag and the
\* closure has no discard branch: every stream goes to allocation and copy.
SessionDiscards(c) == FALSE

\* The for_each closure up to the capture of `timestamp`.
Accept(c) ==
    /\ CanAccept(c)
    /\ log' = Append(log, IncomingLine(c))
    /\ conn' = [conn EXCEPT ![c] = "accepted"]
    /\ handledAt' = [handledAt EXCEPT ![c] = clock]
    /\ timestamp' = [timestamp EXCEPT ![c] = clock]
    /\ dispatchFlag' = [dispatchFlag EXCEPT ![c] = discard_flag]
    /\ st' = [st EXCEPT ![c] = "Allocating"]
    /\ lpc' = "busy"
    /\ cur' = c
    /\ UNCHANGED <<chunkVars, loggerVars, uiVars, peer, sockbuf, sentAll, filename, created, fs,
                   extCount, clock>>

\* stream.peer_addr() fails: unwrap() panics inside the closure.
AcceptPanic(c) ==
    /\ CanAccept(c)
    /\ conn' = [conn EXCEPT ![c] = "accepted"]
    /\ lpc' = "panicked"
    /\ UNCHANGED <<chunkVars, loggerVars, uiVars, cur, peer, sockbuf, sentAll, sessVars, fs, extCount,
                   clock, log>>

\* incoming() yields an error: for_each ends with it, the outer map_err logs.
AcceptErr ==
    /\ lpc = "accepting"
    /\ log' = Append(log, ErrorLine(0))
    /\ lpc' = "returned"
    /\ UNCHANGED <<chunkVars, loggerVars, uiVars, cur, peerVars, sessVars, fs, extCount, clock>>

\* One turn of the `let filename = loop { ... }`: the name is free, break.
AllocBreak(c) ==
    /\ st[c] = "Allocating"
    /\ ~Exists(SplName(timestamp[c]))
    /\ filename' = [filename EXCEPT ![c] = SplName(timestamp[c])]
    /\ st' = [st EXCEPT ![c] = "Creating"]
    /\ UNCHANGED <<chunkVars, loggerVars, uiVars, lpc, cur, peerVars, handledAt, timestamp, dispatchFlag, created,
                   fs, extCount, clock, log>>

\* A loop that moves to the next name without looking at the directory.
AllocRetryUnchecked(c) ==
    /\ st[c] = "Allocating"
    /\ timestamp[c] < MaxTs
    /\ timestamp' = [timestamp EXCEPT ![c] = @ + 1]
    /\ UNCHANGED <<chunkVars, loggerVars, uiVars, lpc, cur, peerVars, st, handledAt, filename,
                   dispatchFlag, created, fs, extCount, clock, log>>

\* One turn of the loop: the name exists, timestamp += 1.
AllocRetry(c) ==
    /\ st[c] = "Allocating"
    /\ Exists(SplName(timestamp[c]))
    /\ timestamp' = [timestamp EXCEPT ![c] = @ + 1]
    /\ UNCHANGED <<chunkVars, loggerVars, uiVars, lpc, cur, peerVars, st, handledAt, filename, dispatchFlag,
                   created, fs, extCount, clock, log>>

\* What File::create leaves in the directory: a new empty file, or the
\* existing file truncated to length 0.
CreateTruncate(dir, name) == [dir EXCEPT ![name] = File(<<>>)]

\* tokio::fs::File::create(filename) succeeds.
FileCreateOk(c) ==
    /\ st[c] = "Creating"
    /\ fs' = CreateTruncate(fs, filename[c])
    /\ created' = [created EXCEPT ![c] = @ \cup {filename[c]}]
    /\ st' = [st EXCEPT ![c] = "Copying"]
    /\ UNCHANGED <<chunkVars, loggerVars, uiVars, lpc, cur, peerVars, handledAt, timestamp, filename, dispatchFlag,
                   extCount, clock, log>>

\* The session's future ends with an error: its map_err logs it and hands
\* the error on to for_each.
SessionError(c) ==
    /\ st' = [st EXCEPT ![c] = "Failed"]
    /\ log' = Append(log, ErrorLine(c))
    /\ lpc' = "unwinding"
    /\ cur' = c

\* for_each has ended with the session's error: the outer map_err logs it
\* again, in a call of the log sink of its own, and the listener's future
\* resolves.
ListenerError ==
    /\ lpc = "unwinding"
    /\ log' = Append(log, ErrorLine(cur))
    /\ lpc' = "returned"
    /\ UNCHANGED <<chunkVars, loggerVars, uiVars, cur, peerVars, sessVars, fs, extCount, clock>>

\* The listener thread's body (main.rs:166-170): the listener has come back
\* with a failure, error!("{}", e) logs it and the thread ends.
ThreadError ==
    /\ lpc = "returned"
    /\ log' = Append(log, ThreadErrorLine(cur))
    /\ lpc' = "stopped"
    /\ cur' = 0
    /\ UNCHANGED <<chunkVars, loggerVars, uiVars, peerVars, sessVars, fs, extCount, clock>>

\* tokio::fs::File::create(filename) fails (permissions, disk, path).
FileCreateErr(c) ==
    /\ st[c] = "Creating"
    /\ SessionError(c)
    /\ UNCHANGED <<chunkVars, loggerVars, uiVars, peerVars, handledAt, timestamp, filename, dispatchFlag, created,
                   fs, extCount, clock>>

\* FileStream::poll: what one poll_read into the buffer returns.
ReadChunk(buf) == Take(buf, CHUNK_SIZE)

\* write_all that writes at offset 0 instead of the file's cursor.
WriteAllAtStart(dir, name, bytes) == [dir EXCEPT ![name] = File(bytes)]

\* write_all(bytes) on the destination file.
WriteAll(dir, name, bytes) == [dir EXCEPT ![name] = File(Content(@) \o bytes)]

\* FileStream::poll yields Some(chunk) and the fold closure writes all of it.
\* Bytes received before a reset may still be read (or be dropped by the
\* stack: PollReadErr).
PollChunk(c) ==
    /\ st[c] = "Copying"
    /\ sockbuf[c] # <<>>
    /\ fs' = WriteAll(fs, filename[c], ReadChunk(sockbuf[c]))
    /\ sockbuf' = [sockbuf EXCEPT ![c] = Drop(@, CHUNK_SIZE)]
    /\ UNCHANGED <<chunkVars, loggerVars, uiVars, lpc, cur, conn, peer, sentAll, sessVars, extCount,
                   clock, log>>

\* FileStream::poll yields Some(chunk) and write_all fails after k bytes.
PollWriteErr(c) ==
    /\ st[c] = "Copying"
    /\ sockbuf[c] # <<>>
    /\ \E k \in 0..(Len(ReadChunk(sockbuf[c])) - 1) :
          fs' = WriteAll(fs, filename[c], Take(ReadChunk(sockbuf[c]), k))
    /\ sockbuf' = [sockbuf EXCEPT ![c] = Drop(@, CHUNK_SIZE)]
    /\ SessionError(c)
    /\ UNCHANGED <<chunkVars, loggerVars, uiVars, conn, peer, sentAll, handledAt, timestamp, filename,
                   dispatchFlag, created, extCount, clock>>

\* A read failure after which the partial file is removed.
PollReadErrCleanup(c) ==
    /\ st[c] = "Copying"
    /\ peer[c] = "reset"
    /\ SessionError(c)
    /\ fs' = [fs EXCEPT ![filename[c]] = NoFile]
    /\ UNCHANGED <<chunkVars, loggerVars, uiVars, peerVars, handledAt, timestamp, filename, dispatchFlag, created,
                   extCount, clock>>

\* poll_read fails (connection reset).
PollReadErr(c) ==
    /\ st[c] = "Copying"
    /\ peer[c] = "reset"
    /\ SessionError(c)
    /\ UNCHANGED <<chunkVars, loggerVars, uiVars, peerVars, handledAt, timestamp, filename, dispatchFlag, created,
                   fs, extCount, clock>>

\* The line the `.map` closure logs: metadata(&filename).len() and the last
\* path component.
SavedReport(c, dir, name) == SavedLine(c, Len(Content(dir[name])), name)

\* A poll that takes "no data available" for the end of the stream.
PollEofOnIdle(c) ==
    /\ st[c] = "Copying"
    /\ sockbuf[c] = <<>>
    /\ log' = Append(log, SavedReport(c, fs, filename[c]))
    /\ st' = [st EXCEPT ![c] = "Kept"]
    /\ lpc' = "accepting"
    /\ cur' = 0
    /\ UNCHANGED <<chunkVars, loggerVars, uiVars, peerVars, handledAt, timestamp, filename, dispatchFlag, created,
                   fs, extCount, clock>>

\* poll_read returns 0: the stream ends, the fold resolves and `.map` logs;
\* for_each goes back to polling incoming().
PollEof(c) ==
    /\ st[c] = "Copying"
    /\ peer[c] = "closed"
    /\ sockbuf[c] = <<>>
    /\ log' = Append(log, SavedReport(c, fs, filename[c]))
    /\ st' = [st EXCEPT ![c] = "Kept"]
    /\ lpc' = "accepting"
    /\ cur' = 0
    /\ UNCHANGED <<chunkVars, loggerVars, uiVars, peerVars, handledAt, timestamp, filename, dispatchFlag, created,
                   fs, extCount, clock>>

Next ==
    \/ WmCreate
    \/ Toggle
    \/ Tick
    \/ \E n \in FileNames : ExternalCreate(n)
    \/ \E c \in Conns : Connect(c)
    \/ \E c \in Conns : PeerSend(c)
    \/ \E c \in Conns : PeerClose(c)
    \/ \E c \in Conns : PeerReset(c)
    \/ BindCallOk
    \/ BindCallErr
    \/ BindOk
    \/ BindErr
    \/ \E c \in Conns : Accept(c)
    \/ \E c \in Conns : AcceptPanic(c)
    \/ AcceptErr
    \/ \E c \in Conns : AllocBreak(c)
    \/ \E c \in Conns : AllocRetry(c)
    \/ \E c \in Conns : FileCreateOk(c)
    \/ \E c \in Conns : FileCreateErr(c)
    \/ \E c \in Conns : PollChunk(c)
    \/ \E c \in Conns : PollWriteErr(c)
    \/ \E c \in Conns : PollReadErr(c)
    \/ ListenerError
    \/ ThreadError
    \/ \E c \in Conns : PollEof(c)

Spec == Init /\ [][Next]_vars

\* ---------------------------------------- FileStream, chunk by chunk
\* The sizes of the bursts a socket receives, around the buffer's size.
BurstSizes == {1, CHUNK_SIZE - 1, CHUNK_SIZE, CHUNK_SIZE + 1}

\* poll_read with the size of the buffer ignored.
ReadSizeUncapped(avail) == avail

\* The `size` poll_read returns: what is there, at most buffer.len(), the
\* buffer being vec![0; CHUNK_SIZE].
ReadSize(avail) == IF avail < CHUNK_SIZE THEN avail ELSE CHUNK_SIZE

\* The socket receives a burst of n bytes.
Arrive(n) ==
    /\ ~innerEof
    /\ ~streamEnded
    /\ arrivals < MaxArrivals
    /\ arrivals' = arrivals + 1
    /\ innerAvail' = innerAvail + n
    /\ innerTotal' = innerTotal + n
    /\ UNCHANGED <<mainVars, loggerVars, innerEof, yielded, fileSegs, streamEnded>>

\* The peer closes.
InnerClose ==
    /\ ~innerEof
    /\ innerEof' = TRUE
    /\ UNCHANGED <<mainVars, loggerVars, innerAvail, innerTotal, arrivals, yielded, fileSegs,
                   streamEnded>>

\* FileStream::poll, size > 0: Some(buffer[0..size]); the fold closure writes
\* the chunk to the file.
PollSome ==
    /\ ~streamEnded
    /\ ReadSize(innerAvail) > 0
    /\ LET size == ReadSize(innerAvail)
           chunk == [off |-> innerTotal - innerAvail, len |-> size]
       IN /\ yielded' = Append(yielded, chunk)
          /\ fileSegs' = Append(fileSegs, chunk)
          /\ innerAvail' = innerAvail - size
    /\ UNCHANGED <<mainVars, loggerVars, innerTotal, innerEof, arrivals, streamEnded>>

\* FileStream::poll, size = 0 (nothing left and the peer has closed): None;
\* the fold resolves and polls no more.
PollNone ==
    /\ ~streamEnded
    /\ innerEof
    /\ ReadSize(innerAvail) = 0
    /\ streamEnded' = TRUE
    /\ UNCHANGED <<mainVars, loggerVars, innerAvail, innerTotal, innerEof, arrivals, yielded,
                   fileSegs>>

ChunkNext ==
    \/ \E n \in BurstSizes : Arrive(n)
    \/ InnerClose
    \/ PollSome
    \/ PollNone

ChunkSpec == Init /\ [][ChunkNext]_vars

\* ------------------------------------- WindowLogger (ui/win32/logger.rs)
\* Every call site is an info!, warn! or error! in a miniraw module, so
\* enabled() and is_our_path() hold for every call.
\* The end of a line ("\r\n") and the text of the line with a given id.
EOL == 0
Render(id) == <<id, EOL>>
UiLineId(k) == k
BgLineId(k) == 10 + k

\* WM_GETTEXT into a buffer of text_len + 2 characters: at most
\* buffer.len() - 1 characters are copied.
GetText(text, len) == Take(text, len + 1)

\* WindowLogger::log on the UI thread: the three SendMessageW calls go
\* straight to the window procedure, nothing is dispatched between them.
UiLog ==
    /\ uiCalls < MaxLogCalls
    /\ LET id == UiLineId(uiCalls + 1)
           old == GetText(editText, Len(editText))
       IN /\ editText' = old \o Render(id)
          /\ returned' = Append(returned, id)
    /\ uiCalls' = uiCalls + 1
    /\ UNCHANGED <<mainVars, chunkVars, logPc, text_len, old_text, bgCalls>>

\* WindowLogger::log on the listener thread, SendMessageW(WM_GETTEXTLENGTH).
BgGetTextLength ==
    /\ logPc = "idle"
    /\ bgCalls < MaxLogCalls
    /\ text_len' = Len(editText)
    /\ logPc' = "len"
    /\ UNCHANGED <<mainVars, chunkVars, editText, old_text, uiCalls, bgCalls, returned>>

\* SendMessageW(WM_GETTEXT).
BgGetText ==
    /\ logPc = "len"
    /\ old_text' = GetText(editText, text_len)
    /\ logPc' = "text"
    /\ UNCHANGED <<mainVars, chunkVars, editText, text_len, uiCalls, bgCalls, returned>>

\* format!("{}[..] .. {}\r\n", old_text, ..) and SendMessageW(WM_SETTEXT).
BgSetText ==
    /\ logPc = "text"
    /\ LET id == BgLineId(bgCalls + 1)
       IN /\ editText' = old_text \o Render(id)
          /\ returned' = Append(returned, id)
    /\ bgCalls' = bgCalls + 1
    /\ logPc' = "idle"
    /\ UNCHANGED <<mainVars, chunkVars, text_len, old_text, uiCalls>>

LogNext ==
    \/ UiLog
    \/ BgGetTextLength
    \/ BgGetText
    \/ BgSetText

LogSpec == Init /\ [][LogNext]_vars

\* ------------------------------- the window before the listener has bound
\* The message loop of the window with the listener thread spawned and not
\* yet scheduled: the window is created, the operator issues discard
\* commands, time passes and other processes write to the directory.
UiNext ==
    \/ WmCreate
    \/ SysCommand
    \/ Tick
    \/ \E n \in FileNames : ExternalCreate(n)

UiSpec == Init /\ [][UiNext]_vars

\* ================================================================ claims
Dispatched(c) == st[c] # "None"
HasLine(l) == \E i \in 1..Len(log) : log[i] = l

\* The name the allocation scheme of the specification gives for second t
\* after k collisions: t.spl, then t-1.spl, t-2.spl, ...
SuffixName(t, k) == <<t, k>>
SpecName(t, k) == IF k = 0 THEN SplName(t) ELSE SuffixName(t, k)
InDirectory(n) == n \in DOMAIN fs /\ Exists(n)

\* C1 Collision freedom: the sessions that have chosen a destination file,
\* those handled in the same clock second included, have pairwise distinct
\* destination file names.
C1_CollisionFreedom ==
    \A c, d \in Conns :
        (c # d /\ filename[c] # NoName /\ filename[d] # NoName)
            => filename[c] # filename[d]

\* Two sessions accepted in the same second have both created their file.
C1_Witness ==
    \E c, d \in Conns :
        /\ c # d
        /\ handledAt[c] = handledAt[d]
        /\ created[c] # {}
        /\ created[d] # {}

\* C2 No race window: whenever a session's File::create succeeds, no file of
\* that name exists at that instant (nothing is truncated or overwritten).
C2_NoRaceWindow ==
    [][\A c \in Conns :
          (st[c] = "Creating" /\ st'[c] = "Copying") => ~Exists(filename[c])]_vars

\* C3 Suffix naming: the name a session handled in second t breaks the loop
\* with is t.spl when that is free and t-k.spl when t.spl, t-1.spl, ...,
\* t-(k-1).spl all exist; its timestamp part is t.
C3_SuffixNaming ==
    [][\A c \in Conns :
          (st[c] = "Allocating" /\ st'[c] = "Creating")
              => \E k \in 0..MaxTs :
                    /\ filename'[c] = SpecName(handledAt[c], k)
                    /\ \A j \in 0..(k - 1) : InDirectory(SpecName(handledAt[c], j))
                    /\ ~InDirectory(SpecName(handledAt[c], k))]_vars

\* C4 Empty-file cleanup: a saving session whose peer sent nothing and closed
\* has, once it is over, no destination file on disk and a warning about the
\* empty file in the log.
C4_EmptyFileCleanup ==
    \A c \in Conns :
        (~dispatchFlag[c] /\ st[c] = "Kept" /\ sentAll[c] = <<>>)
            => /\ \A n \in created[c] : ~Exists(n)
               /\ \E i \in 1..Len(log) :
                     log[i].conn = c /\ log[i].level = "warn" /\ log[i].kind = "empty"

\* C5 Non-empty save: a saving session whose peer sent the non-empty bytes B
\* and closed, with no I/O error, has created exactly one file, the file holds
\* exactly B, and an info line reports |B| with the file's base name.
C5_NonEmptySave ==
    \A c \in Conns :
        (~dispatchFlag[c] /\ st[c] = "Kept" /\ sentAll[c] # <<>>)
            => /\ Cardinality(created[c]) = 1
               /\ \A n \in created[c] :
                     /\ fs[n] = File(sentAll[c])
                     /\ HasLine(SavedLine(c, Len(sentAll[c]), n))

\* A saving session has completed after its peer sent MaxBytes bytes.
C5_Witness ==
    \E c \in Conns :
        /\ ~dispatchFlag[c]
        /\ st[c] = "Kept"
        /\ Len(sentAll[c]) = MaxBytes
        /\ MaxBytes > 0

\* C6 Discard mode: a session dispatched while the flag is true creates no
\* file, and once it is over a line reports the bytes received and discarded.
C6_DiscardMode ==
    \A c \in Conns :
        (Dispatched(c) /\ dispatchFlag[c])
            => /\ created[c] = {}
               /\ (st[c] \in {"Kept", "Failed"} /\ peer[c] = "closed")
                     => HasLine(Line("info", "discarded", c, Len(sentAll[c]), NoName))

\* C7 Error isolation: after an I/O error has ended a session, the accept
\* loop is still running.
C7_ErrorIsolation ==
    \A c \in Conns : st[c] = "Failed" => lpc \in {"accepting", "busy"}

\* C8 Non-blocking dispatch: while an earlier session is still copying, the
\* connection at the head of the backlog can be accepted.
C8_NonBlockingDispatch ==
    \A c, d \in Conns :
        (/\ st[c] = "Copying"
         /\ conn[d] = "pending"
         /\ \A e \in Conns : e < d => conn[e] # "pending")
            => ENABLED Accept(d)

\* C9 Independence: of two sessions that both ran to the end of their
\* streams, one dispatched under discard = true and one under discard = false,
\* the first has produced no file and the second exactly one, holding its bytes.
C9_Independence ==
    \A c, d \in Conns :
        (/\ dispatchFlag[c] /\ st[c] = "Kept"
         /\ ~dispatchFlag[d] /\ st[d] = "Kept")
            => /\ created[c] = {}
               /\ Cardinality(created[d]) = 1
               /\ \A n \in created[d] : fs[n] = File(sentAll[d])

\* C10 Policy snapshot: the policy a session follows is the value the flag
\* had when the session was dispatched, whatever the flag becomes afterwards.
C10_PolicySnapshot ==
    \A c \in Conns : Dispatched(c) => (SessionDiscards(c) <=> dispatchFlag[c])

\* The bind has failed: the call has just failed, or its error has been
\* logged (an error of the listener logged with no start line before it).
BindFailed ==
    \/ lpc = "bindfailed"
    \/ \E i \in 1..Len(log) :
          log[i] = ErrorLine(0) /\ \A j \in 1..i : log[j] # StartedLine

\* C11 Bind failure is fatal and not retried: once the bind has failed, the
\* listener only logs the failure (once) and returns it to its caller, which
\* reports it; bind is not attempted again, the accept loop is never entered
\* (no start line) and no connection is ever made, accepted or captured.
C11_BindFailureFatal ==
    BindFailed
        => /\ lpc \in {"bindfailed", "returned", "stopped"}
           /\ ~HasLine(StartedLine)
           /\ Len(SelectSeq(log, LAMBDA l : l = ErrorLine(0)))
                 = IF lpc = "bindfailed" THEN 0 ELSE 1
           /\ lpc = "stopped" => HasLine(ThreadErrorLine(0))
           /\ \A c \in Conns :
                 conn[c] = "idle" /\ st[c] = "None" /\ ~HasLine(IncomingLine(c))

\* The bind has failed, the failure has been logged and reported, time has
\* passed and the operator has used the menu since.
C11_Witness == BindFailed /\ lpc = "stopped" /\ toggles > 0 /\ clock > 0

IsPrefix(s, t) == Len(s) <= Len(t) /\ SubSeq(t, 1, Len(s)) = s

\* C12 Partial write retained: when an I/O error ends a session that has
\* created its file, the error is logged, the session is Failed, and the file
\* keeps the bytes written so far, at the failing step and ever after.
C12_PartialWriteRetained ==
    [][\A c \in Conns :
          (st'[c] = "Failed" /\ created[c] # {})
              => /\ st[c] \in {"Copying", "Failed"}
                 /\ Exists(filename[c])'
                 /\ IsPrefix(Content(fs[filename[c]]), Content(fs'[filename[c]]))
                 /\ HasLine(ErrorLine(c))']_vars

\* A session has failed during copy with a non-empty partial file on disk.
C12_Witness ==
    \E c \in Conns :
        /\ st[c] = "Failed"
        /\ created[c] # {}
        /\ Content(fs[filename[c]]) # <<>>
        /\ Len(Content(fs[filename[c]])) < Len(sentAll[c])

\* C13 Allocation failure is per-session: when File::create fails and the
\* connection is abandoned with no file created, the error is logged and the
\* listener keeps running.
C13_AllocationFailurePerSession ==
    \A c \in Conns :
        (st[c] = "Failed" /\ created[c] = {})
            => /\ HasLine(ErrorLine(c))
               /\ lpc \in {"accepting", "busy"}

\* C14 Peer-address failure is tolerated: every connection incoming() has
\* handed out, one whose peer address cannot be fetched included, has its
\* accept line and a capture task, and the listener has not died of it.
C14_PeerAddrTolerated ==
    /\ lpc # "panicked"
    /\ \A c \in Conns :
          conn[c] = "accepted" => (HasLine(IncomingLine(c)) /\ Dispatched(c))

\* The capture-task state of the specification that a session state stands
\* for. Dispatched is passed through inside Accept; the code has neither a
\* Discarding nor a Finalized-Deleted state.
Phase(s) ==
    CASE s = "None" -> "None"
      [] s \in {"Allocating", "Creating"} -> "Allocating"
      [] s = "Copying" -> "Copying"
      [] s = "Kept" -> "Finalized-Kept"
      [] s = "Failed" -> "Failed"

\* Dispatched -> (Discarding | Allocating) -> Copying -> {Kept, Deleted, Failed}
ChainEdges ==
    { <<"None", "Allocating">>, <<"None", "Discarding">>,
      <<"Allocating", "Copying">>, <<"Discarding", "Copying">>,
      <<"Copying", "Finalized-Kept">>, <<"Copying", "Finalized-Deleted">>,
      <<"Copying", "Failed">> }

LinesOf(c, lg) == SelectSeq(lg, LAMBDA l : l.conn = c)

\* The step leaves task c alone: its state, its files and its log lines.
TaskQuiet(c) ==
    /\ st'[c] = st[c]
    /\ filename'[c] = filename[c]
    /\ created'[c] = created[c]
    /\ \A n \in created[c] : fs'[n] = fs[n]
    /\ LinesOf(c, log') = LinesOf(c, log)

MovesAlong(edges) ==
    \A c \in Conns :
        /\ Phase(st[c]) # Phase(st'[c]) => <<Phase(st[c]), Phase(st'[c])>> \in edges
        /\ Terminal(c) => TaskQuiet(c)

\* C15 Capture-task state machine: a task moves only along
\* Dispatched -> (Discarding | Allocating) -> Copying -> {Finalized-Kept,
\* Finalized-Deleted, Failed}, and a task in a final state takes no step: its
\* state, its files and its log lines stay as they are.
C15_StateMachine == [][MovesAlong(ChainEdges)]_vars

\* The steps of the capture task of connection c.
SessionStep(c) ==
    \/ AllocBreak(c) \/ AllocRetry(c)
    \/ FileCreateOk(c) \/ FileCreateErr(c)
    \/ PollChunk(c) \/ PollWriteErr(c) \/ PollReadErr(c) \/ PollEof(c)

\* C16 Session completion: an accepted connection whose peer has closed or
\* reset has a capture task that is in a final state or can take its next
\* step (so that, scheduled fairly, it reaches a final state).
C16_SessionCompletion ==
    \A c \in Conns :
        (conn[c] = "accepted" /\ peer[c] \in {"closed", "reset"})
            => (Terminal(c) \/ ENABLED SessionStep(c))

\* C17 No timeout or cancellation: a task leaves Copying only on EOF (peer
\* closed, nothing left to read) or on an I/O error (a failed read, or a
\* failed write of a chunk just read); with an open, silent peer it stays in
\* Copying whatever else happens.
C17_NoTimeout ==
    [][\A c \in Conns :
          st[c] = "Copying"
              => \/ st'[c] = "Copying"
                 \/ st'[c] = "Kept" /\ peer[c] = "closed" /\ sockbuf[c] = <<>>
                 \/ st'[c] = "Failed" /\ (peer[c] = "reset" \/ sockbuf[c] # <<>>)]_vars

\* A task copies from an open peer that has sent nothing, while the clock has
\* moved on and another connection waits.
C17_Witness ==
    \E c, d \in Conns :
        /\ st[c] = "Copying" /\ peer[c] = "open" /\ sentAll[c] = <<>>
        /\ clock > handledAt[c]
        /\ conn[d] = "pending"

\* C18 Flag visibility: a session dispatched after a toggle follows the value
\* the flag has at that moment (true: it discards, false: it saves).
C18_FlagVisibility ==
    [][\A c \in Conns :
          (toggles > 0 /\ st[c] = "None" /\ st'[c] # "None")
              => (SessionDiscards(c) <=> discard_flag)]_vars

Idx(l) == {i \in 1..Len(log) : log[i] = l}

\* C20 Log ordering: the listener-start line is there once, exactly when the
\* bind has succeeded, and before every accept line; each accepted connection
\* has exactly one accept line, which precedes every other line of its session.
C20_LogOrdering ==
    /\ Cardinality(Idx(StartedLine)) <= 1
    /\ HasLine(StartedLine) <=> (lpc \notin {"init", "bind", "bound"} /\ ~BindFailed)
    /\ \A c \in Conns :
          /\ \A i \in Idx(IncomingLine(c)) : \E j \in Idx(StartedLine) : j < i
          /\ conn[c] = "accepted"
                => /\ Cardinality(Idx(IncomingLine(c))) = 1
                   /\ \A k \in 1..Len(log) :
                         (log[k].conn = c /\ log[k] # IncomingLine(c))
                             => \E i \in Idx(IncomingLine(c)) : i < k

RECURSIVE SumLen(_)
SumLen(segs) == IF segs = <<>> THEN 0 ELSE segs[1].len + SumLen(Tail(segs))

\* C19 Chunked copy: every chunk the stream yields is non-empty and at most
\* 32768 bytes long; the chunks, and the writes to the file, follow the byte
\* stream in order without gap or overlap, so that the file holds a prefix of
\* the bytes received; the stream ends at the first zero-length read (peer
\* closed, nothing unread) and yields nothing afterwards.
C19_ChunkedCopy ==
    /\ [](/\ \A i \in 1..Len(yielded) :
               /\ yielded[i].len >= 1
               /\ yielded[i].len <= 32768
               /\ yielded[i].off = SumLen(SubSeq(yielded, 1, i - 1))
          /\ fileSegs = yielded
          /\ SumLen(fileSegs) + innerAvail = innerTotal
          /\ streamEnded => (innerEof /\ innerAvail = 0))
    /\ [][streamEnded => (yielded' = yielded /\ fileSegs' = fileSegs)]_vars

\* The stream has ended after yielding a full chunk followed by a shorter one.
C19_Witness ==
    /\ streamEnded
    /\ \E i \in 1..Len(yielded) :
          /\ yielded[i].len = 32768
          /\ i < Len(yielded)
          /\ yielded[i + 1].len < 32768

\* The candidate names a session has probed and found taken.
Rejected(c) == {SplName(t) : t \in handledAt[c]..(timestamp[c] - 1)}

\* C21 Allocation terminates: every candidate name the loop has rejected is
\* the name of an existing file, so the loop makes at most (existing colliding
\* names + 1) probes; each probe is of a name not probed before (the candidate
\* only moves forward); while the loop runs one of its two turns is possible;
\* and it ends with the last candidate as the chosen destination.
C21_AllocationTerminates ==
    /\ [](\A c \in Conns : st[c] # "None" =>
            /\ \A n \in Rejected(c) : Exists(n)
            /\ Cardinality(Rejected(c)) = timestamp[c] - handledAt[c]
            /\ Cardinality(Rejected(c)) <= Cardinality({n \in FileNames : Exists(n)})
            /\ st[c] = "Allocating" => ENABLED (AllocBreak(c) \/ AllocRetry(c))
            /\ st[c] # "Allocating" =>
                 /\ filename[c] = SplName(timestamp[c])
                 /\ filename[c] \notin Rejected(c))
    /\ [][\A c \in Conns : st[c] = "Allocating" =>
            /\ timestamp'[c] >= timestamp[c]
            /\ timestamp'[c] # timestamp[c] => SplName(timestamp'[c]) \notin Rejected(c)]_vars

\* A session whose loop rejected two names and then chose the third.
C21_Witness ==
    \E c \in Conns :
        /\ st[c] \in {"Creating", "Copying", "Kept", "Failed"}
        /\ timestamp[c] = handledAt[c] + 2
        /\ filename[c] = SplName(timestamp[c])

\* The outcome lines of session c: bytes saved, bytes discarded, empty-file
\* warning, or the I/O error.
OutcomeLines(c) ==
    SelectSeq(log, LAMBDA l : l.conn = c /\ l.kind \in {"saved", "discarded", "empty", "error"})

\* C22 One outcome line per session: a capture session in a terminal state
\* has exactly one outcome line in the log; an I/O error of the session is
\* logged once.
C22_OneOutcomeLine ==
    \A c \in Conns : Terminal(c) => Len(OutcomeLines(c)) = 1

\* The flag values the log reports, in order: the one logged when the window
\* is created, then one per discard command.
FlagLines == SelectSeq(log, LAMBDA l : l.kind \in {"discard-on", "discard-off"})
FlagOf(l) == l.kind = "discard-on"
Persisted(flag) == <<IF flag THEN 1 ELSE 0>>

\* C23 Discard toggle consistency: the flag starts as the persisted value
\* when there is one and false otherwise; every discard command inverts the
\* flag, so each reported value is the opposite of the one before and equal
\* to the one two commands before; after the handler the menu item's checked
\* state equals the flag and, when the settings store was writable, the
\* persisted value equals the flag.
C23_DiscardToggleConsistency ==
    /\ [](/\ toggles = 0 => discard_flag = (registry # <<>> /\ registry # <<0>>)
          /\ menuChecked = discard_flag
          /\ (toggles > 0 /\ regWritable) => registry = Persisted(discard_flag)
          /\ lpc # "init" =>
               /\ Len(FlagLines) = toggles + 1
               /\ FlagOf(FlagLines[Len(FlagLines)]) = discard_flag
               /\ \A i \in 1..Len(FlagLines) :
                     /\ i > 1 => FlagOf(FlagLines[i]) # FlagOf(FlagLines[i - 1])
                     /\ i > 2 => FlagOf(FlagLines[i]) = FlagOf(FlagLines[i - 2]))
    /\ [][toggles' # toggles =>
            /\ toggles' = toggles + 1
            /\ discard_flag' = ~discard_flag
            /\ menuChecked' = discard_flag'
            /\ regWritable' => registry' = Persisted(discard_flag')
            /\ ~regWritable' => registry' = registry]_vars

\* The line with this id stands in the text, whole.
InText(id) == \E i \in 1..(Len(editText) - 1) : editText[i] = id /\ editText[i + 1] = EOL

\* C24 No lost log lines: the line of every call of the log sink that has
\* returned stands whole in the text of the edit control, and the lines stand
\* in the order in which their calls returned.
C24_NoLostLogLines ==
    /\ \A k \in 1..Len(returned) : InText(returned[k])
    /\ editText = [i \in 1..(2 * Len(returned)) |->
                      IF i % 2 = 1 THEN returned[(i + 1) \div 2] ELSE EOL]

=============================================================================
